---- MODULE Spec2Model ----
(***************************************************************************)
(* A model of the Pulumi program that declares the Postal mail server and  *)
(* its MariaDB database on Kubernetes (src/src/index.ts, src/src/postal.ts *)
(* and the MariaDB component, src/unnamed/part_002).                       *)
(*                                                                         *)
(* The program is evaluated once per deployment run: it reads the stack    *)
(* configuration, declares the provider, the namespace, the database       *)
(* component (integrated mode only) and the application component, and     *)
(* exports the stack outputs.  The engine then creates the declared        *)
(* resources in any order that respects their dependencies.                *)
(*                                                                         *)
(* Program strings are tuples of one-character strings, so that template   *)
(* rendering is concatenation, base64 works on bytes and the rendered      *)
(* configuration document can be read back line by line.                   *)
(***************************************************************************)
EXTENDS Integers, Sequences, FiniteSets, TLC

VARIABLES
    config,     \* the stack's settings
    prior,      \* the settings the stack held when the run began
    previous,   \* the preceding run of the program on the stack, if any
    pc,         \* where the run stands
    error,      \* the setting whose absence stopped the program
    resources,  \* the resources declared so far, in order
    outputs,    \* the stack outputs
    created     \* the resources the engine has created

vars == <<config, prior, previous, pc, error, resources, outputs, created>>

(***************************************************************************)
(* Bytes and base64: Buffer.from(s).toString("base64").                    *)
(***************************************************************************)

\* The printable ASCII characters, code 32 (space) to code 126 (~).  Code 96,
\* the grave accent, is written "GRAVE": the language has no literal for it.
Ascii ==
    <<" ","!","\"","#","$","%","&","'","(",")","*","+",",","-",".","/","0","1","2","3","4","5","6",
      "7","8","9",":",";","<","=",">","?","@","A","B","C","D","E","F","G","H","I","J","K","L",
      "M","N","O","P","Q","R","S","T","U","V","W","X","Y","Z","[","\\","]","^","_","GRAVE","a",
      "b","c","d","e","f","g","h","i","j","k","l","m","n","o","p","q","r","s","t","u","v","w",
      "x","y","z","{","|","}","~">>

\* The code of a character; the line feed is code 10.
CodeOf == [c \in {Ascii[i] : i \in 1..95} \cup {"\n"} |->
              IF c = "\n" THEN 10 ELSE 31 + (CHOOSE i \in 1..95 : Ascii[i] = c)]

\* The character of a byte.
CharOf(b) == IF b = 10 THEN "\n" ELSE Ascii[b - 31]

\* The 64 digits of base64, digit 0 first.
Base64Digits ==
    <<"A","B","C","D","E","F","G","H","I","J","K","L","M","N","O","P","Q","R","S","T","U","V","W",
      "X","Y","Z","a","b","c","d","e","f","g","h","i","j","k","l","m","n","o","p","q","r","s",
      "t","u","v","w","x","y","z","0","1","2","3","4","5","6","7","8","9","+","/">>

Base64Value == [c \in {Base64Digits[i] : i \in 1..64} \cup {"="} |->
                   IF c = "=" THEN 0 ELSE (CHOOSE i \in 1..64 : Base64Digits[i] = c) - 1]

\* Buffer.from(s).toString("base64"): three bytes make four digits, and a
\* last group of one or two bytes is padded with "=".
toBase64(s) ==
    LET n == Len(s)
        b == [i \in 1..n |-> CodeOf[s[i]]]
        at(i) == IF i <= n THEN b[i] ELSE 0
        digit(j) ==
            LET k  == (j - 1) \div 4
                p  == (j - 1) % 4
                b0 == at(3 * k + 1)
                b1 == at(3 * k + 2)
                b2 == at(3 * k + 3)
            IN  CASE p = 0 -> Base64Digits[(b0 \div 4) + 1]
                  [] p = 1 -> Base64Digits[(b0 % 4) * 16 + (b1 \div 16) + 1]
                  [] p = 2 -> IF 3 * k + 2 > n THEN "="
                              ELSE Base64Digits[(b1 % 16) * 4 + (b2 \div 64) + 1]
                  [] p = 3 -> IF 3 * k + 3 > n THEN "="
                              ELSE Base64Digits[(b2 % 64) + 1]
    IN  [j \in 1..(4 * ((n + 2) \div 3)) |-> digit(j)]

\* The string a base64 text decodes to (the inverse a reader of the Secret
\* applies).
fromBase64(t) ==
    LET m    == Len(t)
        pads == Cardinality({j \in {m - 1, m} : j >= 1 /\ t[j] = "="})
        n    == 3 * (m \div 4) - pads
        v(j) == Base64Value[t[j]]
        byte(i) ==
            LET k == (i - 1) \div 3
                q == (i - 1) % 3
            IN  CASE q = 0 -> v(4 * k + 1) * 4 + (v(4 * k + 2) \div 16)
                  [] q = 1 -> (v(4 * k + 2) % 16) * 16 + (v(4 * k + 3) \div 4)
                  [] q = 2 -> (v(4 * k + 3) % 4) * 64 + v(4 * k + 4)
    IN  [i \in 1..n |-> CharOf(byte(i))]

(***************************************************************************)
(* Strings.                                                                *)
(***************************************************************************)

\* A setting that is not set, and an optional argument that is not passed.
undefined == <<"undefined">>

\* JavaScript's a || b on strings: b when a is undefined or empty.
OrElse(a, b) == IF a = undefined \/ a = << >> THEN b ELSE a

\* The least element of a non-empty set of integers.
Least(S) == CHOOSE i \in S : \A j \in S : i <= j

\* The strings of length 1..n over the characters A.
RECURSIVE StringsOver(_, _)
StringsOver(A, n) ==
    IF n = 0 THEN {}
    ELSE LET shorter == StringsOver(A, n - 1)
         IN  {<<c>> : c \in A} \cup shorter \cup {Append(s, c) : s \in shorter, c \in A}

\* parseInt on a string of decimal digits.
RECURSIVE parseInt(_)
parseInt(s) ==
    IF s = << >> THEN 0
    ELSE 10 * parseInt(SubSeq(s, 1, Len(s) - 1)) + (CodeOf[s[Len(s)]] - 48)

(***************************************************************************)
(* The configuration document postal.yml, as the Secret's template renders *)
(* it.                                                                     *)
(***************************************************************************)

\* What an Output<T> turns into inside a plain template literal: the text
\* its toString() returns, not its value.
OutputToString ==
    <<"C","a","l","l","i","n","g"," ","[","t","o","S","t","r","i","n","g","]"," ","o","n"," ","a",
      "n"," ","[","O","u","t","p","u","t","<","T",">","]"," ","i","s"," ","n","o","t"," ","s",
      "u","p","p","o","r","t","e","d",".","\n","\n","T","o"," ","g","e","t"," ","t","h","e"," ",
      "v","a","l","u","e"," ","o","f"," ","a","n"," ","O","u","t","p","u","t","<","T",">"," ",
      "a","s"," ","a","n"," ","O","u","t","p","u","t","<","s","t","r","i","n","g",">"," ","c",
      "o","n","s","i","d","e","r"," ","e","i","t","h","e","r",":","\n","1",":"," ","o",".","a",
      "p","p","l","y","(","v"," ","=",">"," ","GRAVE","p","r","e","f","i","x","$","{","v","}",
      "s","u","f","f","i","x","GRAVE",")","\n","2",":"," ","p","u","l","u","m","i",".","i","n",
      "t","e","r","p","o","l","a","t","e"," ","GRAVE","p","r","e","f","i","x","$","{","o","}",
      "s","u","f","f","i","x","GRAVE","\n","\n","S","e","e"," ","h","t","t","p","s",":","/","/",
      "w","w","w",".","p","u","l","u","m","i",".","c","o","m","/","d","o","c","s","/","c","o",
      "n","c","e","p","t","s","/","i","n","p","u","t","s","-","o","u","t","p","u","t","s"," ",
      "f","o","r"," ","m","o","r","e"," ","d","e","t","a","i","l","s",".","\n","T","h","i","s",
      " ","f","u","n","c","t","i","o","n"," ","m","a","y"," ","t","h","r","o","w"," ","i","n",
      " ","a"," ","f","u","t","u","r","e"," ","v","e","r","s","i","o","n"," ","o","f"," ","@",
      "p","u","l","u","m","i","/","p","u","l","u","m","i",".">>

\* The built-in rails secret key of the template.
DefaultRailsSecretKey ==
    <<"f","1","e","4","a","0","6","1","c","0","f","3","8","9","4","a","6","5","d","0","3","3","5",
      "c","e","9","d","5","6","f","f","a","1","6","c","8","b","4","d","8","d","d","2","a","1",
      "0","1","d","8","7","5","f","7","0","3","3","5","8","7","9","0","f","c","6","9","b","5",
      "a","2","7","f","8","5","4","d","f","f","f","8","9","5","b","6","d","8","6","c","b","9",
      "9","9","4","e","d","8","5","0","6","e","0","c","d","e","c","1","a","2","c","d","5","a",
      "1","c","8","4","0","b","f","9","8","b","4","7","4","3","1","c","d","0","8","d","e","0",
      "5","e","3","3","a","1","2","f","5","3","2","1","9","d","c","b","7","9","5","e","4","d",
      "7","2","6","8","5","6","4","7","b","4","0","e","b","7","0","7","5","5","5","c","2","4",
      "2","a","1","f","a","c","c","4","0","b","1","9","c","4","c","d","3","a","3","5","b","0",
      "c","a","9","1","5","0","7","a","6","7","2","d","3","f","7","b","c","e","4","8","a","0",
      "d","a","d","8","1","c","9","3","0","3","2","0","0","0","1","b","2","2","b","a","6","f",
      "d","c","4","6","8","f","9","a","8","c","e","0","8">>

\* RailsSecretKeyText, had the template interpolated the key with no default:
\* a key not passed renders as the text undefined.
RailsSecretKeyTextNoDefault(railsSecretKey) ==
    IF railsSecretKey = undefined THEN <<"u","n","d","e","f","i","n","e","d">> ELSE OutputToString

\* ${args.railsSecretKey || '...'}: args.railsSecretKey is either not passed
\* or the secret Output that index.ts got from getSecret, which is an object
\* and so never falsy; the template literal interpolates its toString().
RailsSecretKeyText(railsSecretKey) ==
    IF railsSecretKey = undefined THEN DefaultRailsSecretKey ELSE OutputToString

\* The template literal postalYmlContent: every value is interpolated as it
\* is, with no quoting.
postalYmlContent(password, domain, host, username, database, railsSecretKey) ==
       <<"v","e","r","s","i","o","n",":"," ","2","\n","m","a","i","n","_","d","b",":","\n"," "," ","h",
         "o","s","t",":"," ">> \o host
    \o <<"\n"," "," ","u","s","e","r","n","a","m","e",":"," ">> \o username
    \o <<"\n"," "," ","p","a","s","s","w","o","r","d",":"," ">> \o password
    \o <<"\n"," "," ","d","a","t","a","b","a","s","e",":"," ">> \o database
    \o <<"\n","m","e","s","s","a","g","e","_","d","b",":","\n"," "," ","h","o","s","t",":"," ">> \o host
    \o <<"\n"," "," ","u","s","e","r","n","a","m","e",":"," ">> \o username
    \o <<"\n"," "," ","p","a","s","s","w","o","r","d",":"," ">> \o password
    \o <<"\n"," "," ","p","r","e","f","i","x",":"," ","p","o","s","t","a","l","\n","r","a","i","l","s",
         ":","\n"," "," ","s","e","c","r","e","t","_","k","e","y",":"," ">> \o RailsSecretKeyText(railsSecretKey)
    \o <<"\n","p","o","s","t","a","l",":","\n"," "," ","w","e","b","_","h","o","s","t","n","a","m","e",
         ":"," ">> \o domain
    \o <<"\n"," "," ","w","e","b","_","p","r","o","t","o","c","o","l",":"," ","h","t","t","p","s","\n",
         " "," ","u","s","e","_","i","p","_","p","o","o","l","s",":"," ","t","r","u","e","\n",
         " "," ","s","m","t","p","_","h","o","s","t","n","a","m","e",":"," ">> \o domain
    \o <<"\n"," "," ","t","r","u","s","t","e","d","_","p","r","o","x","i","e","s",":","\n"," "," "," ",
         " ","-"," ","0",".","0",".","0",".","0","/","0","\n","d","n","s",":","\n"," "," ","m",
         "x","_","r","e","c","o","r","d","s",":","\n"," "," "," "," ","-"," ","\"","1","0"," ">> \o domain
    \o <<"\"","\n"," "," ","r","e","t","u","r","n","_","p","a","t","h","_","d","o","m","a","i","n",":",
         " ">> \o domain
    \o <<"\n"," "," ","r","o","u","t","e","_","d","o","m","a","i","n",":"," ">> \o domain
    \o <<"\n"," "," ","t","r","a","c","k","_","d","o","m","a","i","n",":"," ">> \o domain
    \o <<"\n"," "," ","s","p","f","_","i","n","c","l","u","d","e",":"," ">> \o domain
    \o <<"\n","w","e","b","_","s","e","r","v","e","r",":","\n"," "," ","d","e","f","a","u","l","t","_",
         "b","i","n","d","_","a","d","d","r","e","s","s",":"," ","0",".","0",".","0",".","0",
         "\n"," "," ","d","e","f","a","u","l","t","_","p","o","r","t",":"," ","5","0","0","0",
         "\n","s","m","t","p","_","s","e","r","v","e","r",":","\n"," "," ","d","e","f","a","u",
         "l","t","_","p","o","r","t",":"," ","2","5","\n"," "," ","t","l","s","_","e","n","a",
         "b","l","e","d",":"," ","t","r","u","e","\n">>

(***************************************************************************)
(* Reading a configuration document: the part of YAML the template uses.   *)
(* A document is block mappings nested by two spaces, with block sequences *)
(* at four; a value is a plain or a double-quoted scalar on the line of    *)
(* its key.                                                                *)
(***************************************************************************)

\* The value of an entry that has none.
null == <<"null">>

RECURSIVE SplitLines(_)
SplitLines(s) ==
    LET breaks == {i \in 1..Len(s) : s[i] = "\n"}
    IN  IF breaks = {} THEN <<s>>
        ELSE LET j == Least(breaks)
             IN  <<SubSeq(s, 1, j - 1)>> \o SplitLines(SubSeq(s, j + 1, Len(s)))

\* The number of leading spaces of a line.
Indent(l) == Least({i \in 1..Len(l) : l[i] # " "} \cup {Len(l) + 1}) - 1

\* A line without its comment: a "#" starts one at the start of the line or
\* after a space.
StripComment(l) ==
    LET starts == {i \in 1..Len(l) : l[i] = "#" /\ (i = 1 \/ l[i - 1] = " ")}
    IN  IF starts = {} THEN l ELSE SubSeq(l, 1, Least(starts) - 1)

\* A string without its leading and trailing spaces.
Trim(s) ==
    LET solid == {i \in 1..Len(s) : s[i] # " "}
    IN  IF solid = {} THEN << >>
        ELSE SubSeq(s, Least(solid), CHOOSE i \in solid : \A j \in solid : j <= i)

\* The places of a mapping indicator: a ":" followed by a space or ending
\* the text.
Indicators(s) == {i \in 1..Len(s) : s[i] = ":" /\ (i = Len(s) \/ s[i + 1] = " ")}

\* The characters no plain scalar starts with.
ReservedStart == {"[", "]", "{", "}", ",", "&", "*", "!", "|", ">", "'", "%", "@", "GRAVE"}

\* A scalar as the reader takes it: plain text is taken as it stands, may
\* not hold a mapping indicator nor start with a reserved character;
\* double-quoted text is what the quotes enclose; no text is null.
Scalar(s) ==
    CASE s = << >> -> [ok |-> TRUE, val |-> null]
      [] s # << >> /\ s[1] = "\"" ->
            [ok  |-> Len(s) >= 2 /\ s[Len(s)] = "\""
                        /\ \A i \in 2..(Len(s) - 1) : s[i] # "\"",
             val |-> SubSeq(s, 2, Len(s) - 1)]
      [] OTHER -> [ok |-> Indicators(s) = {} /\ s[1] \notin ReservedStart, val |-> s]

\* One line of a document: blank, a sequence item, a key with its value,
\* or text that is neither.
ParseLine(l) ==
    LET indent == Indent(l)
        text   == Trim(StripComment(l))
        marks  == Indicators(text)
    IN  CASE text = << >> ->
                [kind |-> "blank", indent |-> indent, key |-> << >>, scalar |-> Scalar(<< >>)]
          [] text # << >> /\ text[1] = "-" /\ (Len(text) = 1 \/ text[2] = " ") ->
                [kind |-> "item", indent |-> indent, key |-> << >>,
                 scalar |-> Scalar(Trim(SubSeq(text, 2, Len(text))))]
          [] text # << >> /\ ~(text[1] = "-" /\ (Len(text) = 1 \/ text[2] = " "))
                /\ marks # {} ->
                LET p == Least(marks)
                IN  [kind |-> "pair", indent |-> indent, key |-> SubSeq(text, 1, p - 1),
                     scalar |-> Scalar(Trim(SubSeq(text, p + 1, Len(text))))]
          [] OTHER ->
                [kind |-> "text", indent |-> indent, key |-> << >>, scalar |-> Scalar(<< >>)]

ParseLines(doc) == LET ls == SplitLines(doc) IN [k \in 1..Len(ls) |-> ParseLine(ls[k])]

\* The line that line k of the parsed lines e is nested under: the last line
\* before it that is not blank and is indented less (0: there is none).
Parent(e, k) ==
    LET above == {j \in 1..(k - 1) : e[j].kind # "blank" /\ e[j].indent < e[k].indent}
    IN  IF above = {} THEN 0 ELSE CHOOSE j \in above : \A i \in above : i <= j

\* Whether the document is well formed: top-level keys at indent 0, the keys
\* of a block at indent 2 under a key with no value of its own, the items of
\* a sequence at indent 4 under such a key of a block, every scalar readable.
ValidDocument(doc) ==
    LET e == ParseLines(doc)
    IN  \A k \in 1..Len(e) :
            \/ e[k].kind = "blank"
            \/ /\ e[k].scalar.ok
               /\ \/ e[k].kind = "pair" /\ e[k].indent = 0
                  \/ /\ e[k].kind = "pair" /\ e[k].indent = 2
                     /\ Parent(e, k) # 0
                     /\ e[Parent(e, k)].kind = "pair"
                     /\ e[Parent(e, k)].indent = 0
                     /\ e[Parent(e, k)].scalar.val = null
                  \/ /\ e[k].kind = "item" /\ e[k].indent = 4
                     /\ Parent(e, k) # 0
                     /\ e[Parent(e, k)].kind = "pair"
                     /\ e[Parent(e, k)].indent = 2
                     /\ e[Parent(e, k)].scalar.val = null

\* The value of key in the block named section (undefined: no such entry).
Lookup(doc, section, key) ==
    LET e    == ParseLines(doc)
        hits == {k \in 1..Len(e) :
                    /\ e[k].kind = "pair" /\ e[k].indent = 2 /\ e[k].key = key
                    /\ Parent(e, k) # 0
                    /\ e[Parent(e, k)].kind = "pair"
                    /\ e[Parent(e, k)].indent = 0
                    /\ e[Parent(e, k)].key = section}
    IN  IF hits = {} THEN undefined
        ELSE e[CHOOSE k \in hits : \A j \in hits : j <= k].scalar.val

(***************************************************************************)
(* The stack configuration: the settings index.ts reads.                   *)
(***************************************************************************)

\* The longest password the model draws.
MaxLen == 2

\* The characters passwords are drawn from: a letter and the characters the
\* configuration format gives a meaning to.
PasswordChars == {"a", "#", ":", " "}

\* The values each setting is drawn from; undefined is a setting not set.
\* Domains and hosts are host names; the two switches hold booleans.
Values ==
       ("kubeconfig" :> {undefined, <<"k">>}) @@
       ("postal:domain" :> {undefined, <<"m",".","x">>, <<"n",".","y">>}) @@
       ("postal:mariadb-password" :> {undefined} \cup StringsOver(PasswordChars, MaxLen)) @@
       ("postal:signing-key" :> {undefined, <<"s">>, <<"s","k">>, <<"s","\n","k">>}) @@
       ("postal:mariadb-root-password" :> {undefined, <<"r">>, <<"q">>}) @@
       ("postal:rails-secret-key" :> {undefined, <<"t">>}) @@
       ("postal:mariadb-host" :> {undefined, <<"h",".","z">>}) @@
       ("postal:mariadb-database" :> {undefined, <<"d">>}) @@
       ("postal:mariadb-username" :> {undefined, <<"u">>}) @@
       ("postal:mariadb-storage-size" :> {undefined, <<"1","G","i">>}) @@
       ("postal:mariadb-storage-class" :> {undefined, <<"c">>}) @@
       ("postal:image" :> {undefined, <<"i">>}) @@
       ("postal:web-replicas" :> {undefined, <<"0">>, <<"2">>}) @@
       ("postal:smtp-replicas" :> {undefined, <<"0">>, <<"2">>}) @@
       ("postal:worker-replicas" :> {undefined, <<"0">>, <<"2">>}) @@
       ("postal:smtp-service-type" :>
           {undefined, <<"C","l","u","s","t","e","r","I","P">>, <<"N","o","d","e","P","o","r","t">>, <<"L","o","a","d","B","a","l","a","n","c","e","r">>, <<"E","x","t","e","r","n","a","l","N","a","m","e">>}) @@
       ("postal:smtp-loadbalancer-ip" :> {undefined, << >>, <<"1",".","2",".","3",".","4">>}) @@
       ("postal:ingress-class" :> {undefined, <<"t","r","a","e","f","i","k">>}) @@
       ("postal:deploy-ingress" :> {undefined, <<"t","r","u","e">>, <<"f","a","l","s","e">>}) @@
       ("postal:deploy-mariadb" :> {undefined, <<"t","r","u","e">>, <<"f","a","l","s","e">>})

Keys == DOMAIN Values

\* The configuration with the required settings set and no optional one.
BaseConfig ==
    [k \in Keys |->
        CASE k = "kubeconfig"                   -> <<"k">>
          [] k = "postal:domain"                -> <<"m",".","x">>
          [] k = "postal:mariadb-password"      -> <<"a">>
          [] k = "postal:signing-key"           -> <<"s">>
          [] k = "postal:mariadb-root-password" -> <<"r">>
          [] OTHER                              -> undefined]

\* The configurations that differ from c in at most one setting.
OneSettingFrom(c) == UNION {{[c EXCEPT ![k] = v] : v \in Values[k]} : k \in Keys}

\* The configurations the model runs the program on: every one that differs
\* from the base configuration in at most two settings.
Configs == UNION {OneSettingFrom(c) : c \in OneSettingFrom(BaseConfig)}

\* The configurations that differ from the base one in the two switches
\* only: those that decide which resources are declared.
SwitchConfigs ==
    {c \in Configs : \A k \in Keys \ {"postal:deploy-ingress", "postal:deploy-mariadb"} :
                        c[k] = BaseConfig[k]}

\* config.get / getSecret: the setting's value, undefined when not set.
get(key) == config[key]

\* config.getBoolean(key) ?? dflt.
getBooleanOr(key, dflt) == IF get(key) = undefined THEN dflt ELSE get(key) = <<"t","r","u","e">>

\* Required, had the signing key been read with getSecret instead of
\* requireSecret.
RequiredWithoutSigningKey ==
    <<"kubeconfig", "postal:domain", "postal:mariadb-password",
      "postal:mariadb-root-password">>

\* The settings index.ts requires, in the order it requires them.
Required ==
    <<"kubeconfig", "postal:domain", "postal:mariadb-password", "postal:signing-key",
      "postal:mariadb-root-password">>

kubeconfig          == get("kubeconfig")
postalDomain        == get("postal:domain")
mariadbPassword     == get("postal:mariadb-password")
signingKey          == get("postal:signing-key")
mariadbRootPassword == get("postal:mariadb-root-password")
railsSecretKey      == get("postal:rails-secret-key")

\* dbConfig, had the host been fixed to the integrated service's name.
dbConfigFixedHost ==
    [host         |-> <<"p","o","s","t","a","l","-","m","a","r","i","a","d","b","-","s","e","r","v","i","c","e">>,
     database     |-> OrElse(get("postal:mariadb-database"), <<"p","o","s","t","a","l">>),
     username     |-> OrElse(get("postal:mariadb-username"), <<"p","o","s","t","a","l">>),
     storageSize  |-> OrElse(get("postal:mariadb-storage-size"), <<"8","G","i">>),
     storageClass |-> OrElse(get("postal:mariadb-storage-class"), << >>)]

dbConfig ==
    [host         |-> OrElse(get("postal:mariadb-host"), <<"p","o","s","t","a","l","-","m","a","r","i","a","d","b","-","s","e","r","v","i","c","e">>),
     database     |-> OrElse(get("postal:mariadb-database"), <<"p","o","s","t","a","l">>),
     username     |-> OrElse(get("postal:mariadb-username"), <<"p","o","s","t","a","l">>),
     storageSize  |-> OrElse(get("postal:mariadb-storage-size"), <<"8","G","i">>),
     storageClass |-> OrElse(get("postal:mariadb-storage-class"), << >>)]

\* serviceConfig, had the SMTP service type not been read from the settings.
serviceConfigFixedType ==
    [image              |-> OrElse(get("postal:image"), <<"g","h","c","r",".","i","o","/","p","o","s","t","a","l","s","e","r","v","e","r","/","p","o",
                                                          "s","t","a","l",":","3",".","3",".",
                                                          "4">>),
     webReplicas        |-> parseInt(OrElse(get("postal:web-replicas"), <<"1">>)),
     smtpReplicas       |-> parseInt(OrElse(get("postal:smtp-replicas"), <<"1">>)),
     workerReplicas     |-> parseInt(OrElse(get("postal:worker-replicas"), <<"1">>)),
     smtpServiceType    |-> <<"C","l","u","s","t","e","r","I","P">>,
     smtpLoadBalancerIP |-> OrElse(get("postal:smtp-loadbalancer-ip"), << >>)]

\* serviceConfig, had the static address not been read from the settings.
serviceConfigNoStaticAddress ==
    [image              |-> OrElse(get("postal:image"), <<"g","h","c","r",".","i","o","/","p","o","s","t","a","l","s","e","r","v","e","r","/","p","o",
                                                          "s","t","a","l",":","3",".","3",".",
                                                          "4">>),
     webReplicas        |-> parseInt(OrElse(get("postal:web-replicas"), <<"1">>)),
     smtpReplicas       |-> parseInt(OrElse(get("postal:smtp-replicas"), <<"1">>)),
     workerReplicas     |-> parseInt(OrElse(get("postal:worker-replicas"), <<"1">>)),
     smtpServiceType    |-> OrElse(get("postal:smtp-service-type"), <<"C","l","u","s","t","e","r","I","P">>),
     smtpLoadBalancerIP |-> << >>]

serviceConfig ==
    [image              |-> OrElse(get("postal:image"), <<"g","h","c","r",".","i","o","/","p","o","s","t","a","l","s","e","r","v","e","r","/","p","o",
                                                          "s","t","a","l",":","3",".","3",".",
                                                          "4">>),
     webReplicas        |-> parseInt(OrElse(get("postal:web-replicas"), <<"1">>)),
     smtpReplicas       |-> parseInt(OrElse(get("postal:smtp-replicas"), <<"1">>)),
     workerReplicas     |-> parseInt(OrElse(get("postal:worker-replicas"), <<"1">>)),
     smtpServiceType    |-> OrElse(get("postal:smtp-service-type"), <<"C","l","u","s","t","e","r","I","P">>),
     smtpLoadBalancerIP |-> OrElse(get("postal:smtp-loadbalancer-ip"), << >>)]

\* ingressConfig, had deploy-ingress defaulted to true.
ingressConfigOnByDefault ==
    [ingressClass  |-> OrElse(get("postal:ingress-class"), <<"n","g","i","n","x">>),
     deployIngress |-> getBooleanOr("postal:deploy-ingress", TRUE)]

ingressConfig ==
    [ingressClass  |-> OrElse(get("postal:ingress-class"), <<"n","g","i","n","x">>),
     deployIngress |-> getBooleanOr("postal:deploy-ingress", FALSE)]

\* deployMariadb, had the default been applied with || instead of ??: false
\* is falsy, so the default replaces it.
deployMariadbOrTrue == getBooleanOr("postal:deploy-mariadb", TRUE) \/ TRUE

deployMariadb == getBooleanOr("postal:deploy-mariadb", TRUE)

(***************************************************************************)
(* Resources.  A resource is known to the engine by its type and logical   *)
(* name; a declaration carries its parent, its explicit dependsOn, the     *)
(* resources whose computed values its arguments read (refs) and the       *)
(* object it describes.                                                    *)
(***************************************************************************)

Ref(type, name) == [type |-> type, name |-> name]

\* No parent, no provider.
NoRef == Ref("", << >>)

\* The resource declared under reference u.
Resource(u) == resources[CHOOSE i \in 1..Len(resources) : resources[i].urn = u]

Declared(u) == \E i \in 1..Len(resources) : resources[i].urn = u

\* The declared resources of a Kubernetes kind.
OfKind(kind) == {i \in 1..Len(resources) : resources[i].urn.type = kind}

(***************************************************************************)
(* The MariaDB component (class MariaDB).                                  *)
(***************************************************************************)

\* new MariaDB(name, args, opts): the component and its five children, in
\* the order the constructor declares them.  An argument not passed is
\* undefined; args.namespace is an Output.
MariaDB(name, args, opts) ==
    LET self        == Ref("custom:mariadb:MariaDB", name)
        secret      == Ref("Secret", name \o <<"-","s","e","c","r","e","t">>)
        configMap   == Ref("ConfigMap", name \o <<"-","i","n","i","t">>)
        pvc         == Ref("PersistentVolumeClaim", name \o <<"-","p","v","c">>)
        deployment  == Ref("Deployment", name \o <<"-","d","e","p","l","o","y","m","e","n","t">>)
        service     == Ref("Service", name \o <<"-","s","e","r","v","i","c","e">>)
        port        == IF args.port = undefined THEN 3306 ELSE args.port
        theSecret ==
            [urn |-> secret, parent |-> self, provider |-> args.provider,
             dependsOn |-> {}, refs |-> args.namespace.resources,
             metadata |-> [name |-> name \o <<"-","s","e","c","r","e","t">>, namespace |-> args.namespace.value],
             data |-> ("mariadb-root-password" :> toBase64(args.rootPassword)) @@
                      ("mariadb-password" :> toBase64(args.password))]
        theConfigMap ==
            [urn |-> configMap, parent |-> self, provider |-> args.provider,
             dependsOn |-> {}, refs |-> args.namespace.resources,
             metadata |-> [name |-> name \o <<"-","i","n","i","t">>, namespace |-> args.namespace.value],
             data |-> ("init-postal.sql" :>
                         <<"\n","-","-"," ","G","r","a","n","t"," ","p","e","r","m","i","s","s","i","o","n","s"," ","f",
                           "o","r"," ","P","o","s","t","a","l"," ","m","a","i","l"," ","s","e",
                           "r","v","e","r"," ","d","a","t","a","b","a","s","e","s","\n","G","R",
                           "A","N","T"," ","A","L","L"," ","P","R","I","V","I","L","E","G","E",
                           "S"," ","O","N"," ","GRAVE","p","o","s","t","a","l","-","%","GRAVE",
                           ".","*"," ","T","O"," ","'">>
                         \o args.username \o <<"'","@","'","%","'",";","\n","F","L","U","S","H"," ","P","R","I","V","I","L","E","G","E","S",
                                               ";","\n">>)]
        thePvc ==
            [urn |-> pvc, parent |-> self, provider |-> args.provider,
             dependsOn |-> {}, refs |-> args.namespace.resources,
             metadata |-> [name |-> name \o <<"-","p","v","c">>, namespace |-> args.namespace.value],
             spec |-> [accessModes |-> <<<<"R","e","a","d","W","r","i","t","e","O","n","c","e">>>>,
                       storage |-> OrElse(args.storageSize, <<"8","G","i">>),
                       storageClassName |-> OrElse(args.storageClass, undefined)]]
        \* this.secret.metadata.name, this.configMap.metadata.name and
        \* this.pvc.metadata.name
        secretName    == theSecret.metadata.name
        configMapName == theConfigMap.metadata.name
        pvcName       == thePvc.metadata.name
    IN  << [urn |-> self, parent |-> NoRef, provider |-> NoRef,
            dependsOn |-> opts.dependsOn, refs |-> {}],
           theSecret,
           theConfigMap,
           thePvc,
           [urn |-> deployment, parent |-> self, provider |-> args.provider,
            dependsOn |-> {secret, pvc, configMap},
            refs |-> args.namespace.resources \cup {secret, pvc, configMap},
            metadata |-> [name |-> name \o <<"-","d","e","p","l","o","y","m","e","n","t">>, namespace |-> args.namespace.value],
            spec |-> [replicas |-> 1,
                      selector |-> [app |-> name, component |-> <<"m","a","r","i","a","d","b">>],
                      podLabels |-> [app |-> name, component |-> <<"m","a","r","i","a","d","b">>],
                      container |->
                         [name |-> <<"m","a","r","i","a","d","b">>,
                          image |-> OrElse(args.image, <<"m","a","r","i","a","d","b",":","1","0",".","1","1">>),
                          ports |-> <<[containerPort |-> port, name |-> <<"m","a","r","i","a","d","b">>]>>,
                          env |-> <<[name |-> <<"M","A","R","I","A","D","B","_","R","O","O","T","_","P","A","S","S","W","O","R","D">>, value |-> undefined,
                                     secretName |-> secretName,
                                     secretKey |-> "mariadb-root-password"],
                                    [name |-> <<"M","A","R","I","A","D","B","_","D","A","T","A","B","A","S","E">>, value |-> args.database,
                                     secretName |-> undefined, secretKey |-> ""],
                                    [name |-> <<"M","A","R","I","A","D","B","_","U","S","E","R">>, value |-> args.username,
                                     secretName |-> undefined, secretKey |-> ""],
                                    [name |-> <<"M","A","R","I","A","D","B","_","P","A","S","S","W","O","R","D">>, value |-> undefined,
                                     secretName |-> secretName,
                                     secretKey |-> "mariadb-password"]>>,
                          volumeMounts |->
                             <<[name |-> <<"m","a","r","i","a","d","b","-","d","a","t","a">>, mountPath |-> <<"/","v","a","r","/","l","i","b","/","m","y","s","q","l">>],
                               [name |-> <<"i","n","i","t","-","s","c","r","i","p","t","s">>,
                                mountPath |-> <<"/","d","o","c","k","e","r","-","e","n","t","r","y","p","o","i","n","t","-","i","n","i","t",
                                                "d","b",".","d">>]>>,
                          livenessProbe |-> TRUE,
                          readinessProbe |-> TRUE,
                          limits |-> args.resources = undefined \/ args.resources.limits],
                      volumes |->
                         <<[name |-> <<"m","a","r","i","a","d","b","-","d","a","t","a">>, source |-> "persistentVolumeClaim",
                            from |-> pvcName],
                           [name |-> <<"i","n","i","t","-","s","c","r","i","p","t","s">>, source |-> "configMap",
                            from |-> configMapName]>>]],
           [urn |-> service, parent |-> self, provider |-> args.provider,
            dependsOn |-> {deployment}, refs |-> args.namespace.resources,
            metadata |-> [name |-> name \o <<"-","s","e","r","v","i","c","e">>, namespace |-> args.namespace.value],
            spec |-> [type |-> <<"C","l","u","s","t","e","r","I","P">>,
                      loadBalancerIP |-> undefined,
                      ports |-> <<[port |-> port, targetPort |-> <<"m","a","r","i","a","d","b">>,
                                   protocol |-> <<"T","C","P">>, name |-> <<"m","a","r","i","a","d","b">>]>>,
                      selector |-> [app |-> name, component |-> <<"m","a","r","i","a","d","b">>]]] >>

(***************************************************************************)
(* The Postal component (class Postal).                                    *)
(***************************************************************************)

\* ConfigVolume, had it named the Secret by its logical name rather than by
\* the name in its metadata.
ConfigVolumeByLogicalName(secretName) ==
    [name |-> <<"c","o","n","f","i","g">>, source |-> "secret", from |-> <<"p","o","s","t","a","l","-","s","e","c","r","e","t">>]

\* The config volume and its mount, the same text in every workload.
ConfigVolume(secretName) == [name |-> <<"c","o","n","f","i","g">>, source |-> "secret", from |-> secretName]

ConfigMount == [name |-> <<"c","o","n","f","i","g">>, mountPath |-> <<"/","c","o","n","f","i","g">>]

ConfigEnv ==
    [name |-> <<"P","O","S","T","A","L","_","C","O","N","F","I","G","_","R","O","O","T">>, value |-> <<"/","c","o","n","f","i","g">>, secretName |-> undefined,
     secretKey |-> ""]

\* The command of the initialization job.
InitCommand(domain) ==
    <<<<"s","h">>, <<"-","c">>,
      <<"p","o","s","t","a","l"," ","i","n","i","t","i","a","l","i","z","e"," ","&","&"," ","p","r",
        "i","n","t","f"," ","'","a","d","m","i","n","@">> \o domain
        \o <<"\\","\n","P","o","s","t","a","l","\\","\n","A","d","m","i","n","\\","\n","P","o","s","t","a",
             "l","A","d","m","i","n","1","2","3","!","'"," ","|"," ","p","o","s","t","a","l",
             " ","m","a","k","e","-","u","s","e","r">>>>

\* Pod labels that leave out the release.
PodLabelsWithoutRelease(component) == [app |-> <<"p","o","s","t","a","l">>, component |-> component]

\* The labels of a role's pod template.
PodLabels(component) ==
    [app |-> <<"p","o","s","t","a","l">>, component |-> component, release |-> <<"p","o","s","t","a","l">>]

\* A job name that carries the number of the run.
InitJobNamePerRun(name) ==
    name \o <<"-","i","n","i","t","-">> \o (IF previous = << >> THEN <<"0">> ELSE <<"1">>)

\* The name of the initialization job, as logical name and as metadata.name.
InitJobName(name) == name \o <<"-","i","n","i","t">>

\* new Postal(name, args, opts): the component and its children, in the order
\* the constructor declares them; the Ingress only when args.deployIngress.
Postal(name, args, opts) ==
    LET self             == Ref("custom:postal:Postal", name)
        secret           == Ref("Secret", name \o <<"-","s","e","c","r","e","t">>)
        webDeployment    == Ref("Deployment", name \o <<"-","w","e","b">>)
        webService       == Ref("Service", name \o <<"-","w","e","b","-","s","e","r","v","i","c","e">>)
        smtpDeployment   == Ref("Deployment", name \o <<"-","s","m","t","p">>)
        smtpService      == Ref("Service", name \o <<"-","s","m","t","p","-","s","e","r","v","i","c","e">>)
        workerDeployment == Ref("Deployment", name \o <<"-","w","o","r","k","e","r">>)
        initJob          == Ref("Job", InitJobName(name))
        ingress          == Ref("Ingress", name \o <<"-","w","e","b","-","i","n","g","r","e","s","s">>)
        image            == OrElse(args.image, <<"g","h","c","r",".","i","o","/","p","o","s","t","a","l","s","e","r","v","e","r","/","p","o",
                                                 "s","t","a","l",":","3",".","3",".","4">>)
        theSecret ==
            [urn |-> secret, parent |-> self, provider |-> args.provider,
             dependsOn |-> {}, refs |-> args.namespace.resources,
             metadata |-> [name |-> name \o <<"-","c","o","n","f","i","g">>, namespace |-> args.namespace.value],
             data |-> ("postal.yml" :>
                         toBase64(postalYmlContent(args.password, args.domain, args.host,
                                                   args.username, args.database,
                                                   args.railsSecretKey))) @@
                      ("signing.key" :> toBase64(args.signingKey))]
        theWebService ==
            [urn |-> webService, parent |-> self, provider |-> args.provider,
             dependsOn |-> {webDeployment}, refs |-> args.namespace.resources,
             metadata |-> [name |-> name \o <<"-","w","e","b">>, namespace |-> args.namespace.value],
             spec |-> [type |-> <<"C","l","u","s","t","e","r","I","P">>,
                       loadBalancerIP |-> undefined,
                       ports |-> <<[port |-> 5000, targetPort |-> <<"h","t","t","p">>,
                                    protocol |-> <<"T","C","P">>, name |-> <<"h","t","t","p">>]>>,
                       selector |-> [app |-> <<"p","o","s","t","a","l">>, component |-> <<"w","e","b">>,
                                     release |-> <<"p","o","s","t","a","l">>]]]
        \* this.secret.metadata.name and this.webService.metadata.name
        secretName       == theSecret.metadata.name
        webServiceName   == theWebService.metadata.name
        workload(urn, metaName, component, replicas, containerName, command, ports,
                 liveness, readiness) ==
            [urn |-> urn, parent |-> self, provider |-> args.provider,
             dependsOn |-> {secret}, refs |-> args.namespace.resources \cup {secret},
             metadata |-> [name |-> metaName, namespace |-> args.namespace.value],
             spec |-> [replicas |-> IF replicas = 0 THEN 1 ELSE replicas,
                       selector |-> [app |-> <<"p","o","s","t","a","l">>, component |-> component,
                                     release |-> <<"p","o","s","t","a","l">>],
                       podLabels |-> PodLabels(component),
                       container |->
                          [name |-> containerName, image |-> image, command |-> command,
                           ports |-> ports, env |-> <<ConfigEnv>>,
                           volumeMounts |-> <<ConfigMount>>,
                           livenessProbe |-> liveness, readinessProbe |-> readiness,
                           limits |-> FALSE],
                       volumes |-> <<ConfigVolume(secretName)>>]]
    IN  << [urn |-> self, parent |-> NoRef, provider |-> NoRef,
            dependsOn |-> opts.dependsOn, refs |-> {}],
           theSecret,
           workload(webDeployment, name \o <<"-","w","e","b">>, <<"w","e","b">>, args.webReplicas,
                    <<"p","o","s","t","a","l","-","w","e","b">>, <<<<"p","o","s","t","a","l">>, <<"w","e","b","-","s","e","r","v","e","r">>>>,
                    <<[containerPort |-> 5000, name |-> <<"h","t","t","p">>]>>, FALSE, FALSE),
           theWebService,
           workload(smtpDeployment, name \o <<"-","s","m","t","p">>, <<"s","m","t","p">>, args.smtpReplicas,
                    <<"p","o","s","t","a","l","-","s","m","t","p">>, <<<<"p","o","s","t","a","l">>, <<"s","m","t","p","-","s","e","r","v","e","r">>>>,
                    <<[containerPort |-> 25, name |-> <<"s","m","t","p">>]>>, TRUE, TRUE),
           [urn |-> smtpService, parent |-> self, provider |-> args.provider,
            dependsOn |-> {smtpDeployment}, refs |-> args.namespace.resources,
            metadata |-> [name |-> name \o <<"-","s","m","t","p">>, namespace |-> args.namespace.value],
            spec |-> [type |-> OrElse(args.smtpServiceType, <<"C","l","u","s","t","e","r","I","P">>),
                      loadBalancerIP |-> OrElse(args.smtpLoadBalancerIP, undefined),
                      ports |-> <<[port |-> 25, targetPort |-> <<"s","m","t","p">>,
                                   protocol |-> <<"T","C","P">>, name |-> <<"s","m","t","p">>]>>,
                      selector |-> [app |-> <<"p","o","s","t","a","l">>, component |-> <<"s","m","t","p">>,
                                    release |-> <<"p","o","s","t","a","l">>]]],
           workload(workerDeployment, name \o <<"-","w","o","r","k","e","r">>, <<"w","o","r","k","e","r">>, args.workerReplicas,
                    <<"p","o","s","t","a","l","-","w","o","r","k","e","r">>, <<<<"p","o","s","t","a","l">>, <<"w","o","r","k","e","r">>>>, << >>, TRUE, FALSE),
           [urn |-> initJob, parent |-> self, provider |-> args.provider,
            dependsOn |-> {secret}, refs |-> args.namespace.resources \cup {secret},
            metadata |-> [name |-> InitJobName(name), namespace |-> args.namespace.value],
            spec |-> [restartPolicy |-> <<"O","n","F","a","i","l","u","r","e">>,
                      container |->
                         [name |-> <<"p","o","s","t","a","l","-","i","n","i","t">>, image |-> image,
                          command |-> InitCommand(args.domain),
                          ports |-> << >>, env |-> <<ConfigEnv>>,
                          volumeMounts |-> <<ConfigMount>>,
                          livenessProbe |-> FALSE, readinessProbe |-> FALSE,
                          limits |-> FALSE],
                      volumes |-> <<ConfigVolume(secretName)>>]] >>
        \o IF args.deployIngress
           THEN << [urn |-> ingress, parent |-> self, provider |-> args.provider,
                    dependsOn |-> {webService},
                    refs |-> args.namespace.resources \cup {webService},
                    metadata |-> [name |-> name \o <<"-","w","e","b">>, namespace |-> args.namespace.value],
                    spec |-> [ingressClassName |-> OrElse(args.ingressClass, <<"n","g","i","n","x">>),
                              tls |-> [secretName |-> name \o <<"-","w","e","b","-","t","l","s">>,
                                       hosts |-> <<args.domain>>],
                              rule |-> [host |-> args.domain, path |-> <<"/">>,
                                        pathType |-> <<"I","m","p","l","e","m","e","n","t","a","t","i","o","n","S","p","e","c","i","f","i","c">>,
                                        serviceName |-> webServiceName,
                                        servicePort |-> 5000]]] >>
           ELSE << >>

(***************************************************************************)
(* The program (index.ts).                                                 *)
(***************************************************************************)

\* new Provider("k8s-provider", {kubeconfig}).
k8sProvider ==
    [urn |-> Ref("pulumi:providers:kubernetes", <<"k","8","s","-","p","r","o","v","i","d","e","r">>), parent |-> NoRef,
     provider |-> NoRef, dependsOn |-> {}, refs |-> {}, kubeconfig |-> kubeconfig]

\* new Namespace("postal-ns", {metadata: {name: "postal"}}, {provider}).
postalNamespace ==
    [urn |-> Ref("Namespace", <<"p","o","s","t","a","l","-","n","s">>), parent |-> NoRef, provider |-> k8sProvider.urn,
     dependsOn |-> {}, refs |-> {}, metadata |-> [name |-> <<"p","o","s","t","a","l">>, namespace |-> << >>]]

\* A namespace argument left to the provider's default.
namespaceOutputDefault == [value |-> <<"d","e","f","a","u","l","t">>, resources |-> {}]

\* postalNamespace.metadata.name: a value computed by the namespace.
namespaceOutput == [value |-> postalNamespace.metadata.name, resources |-> {postalNamespace.urn}]

\* The arguments and options of new MariaDB("postal-mariadb", ...).
mariadbArgs ==
    [namespace    |-> namespaceOutput,
     provider     |-> k8sProvider.urn,
     rootPassword |-> mariadbRootPassword,
     database     |-> dbConfig.database,
     username     |-> dbConfig.username,
     password     |-> mariadbPassword,
     storageSize  |-> dbConfig.storageSize,
     storageClass |-> OrElse(dbConfig.storageClass, undefined),
     image        |-> undefined,
     port         |-> undefined,
     resources    |-> undefined]

mariadb == MariaDB(<<"p","o","s","t","a","l","-","m","a","r","i","a","d","b">>, mariadbArgs, [dependsOn |-> {postalNamespace.urn}])

\* Whether the program holds a MariaDB component (the variable mariadb is
\* not undefined).
mariadbDeclared == Declared(Ref("custom:mariadb:MariaDB", <<"p","o","s","t","a","l","-","m","a","r","i","a","d","b">>))

\* The arguments of new Postal("postal", ...).
postalArgs ==
    [namespace          |-> namespaceOutput,
     provider           |-> k8sProvider.urn,
     domain             |-> postalDomain,
     host               |-> dbConfig.host,
     database           |-> dbConfig.database,
     username           |-> dbConfig.username,
     password           |-> mariadbPassword,
     signingKey         |-> signingKey,
     railsSecretKey     |-> railsSecretKey,
     image              |-> serviceConfig.image,
     webReplicas        |-> serviceConfig.webReplicas,
     smtpReplicas       |-> serviceConfig.smtpReplicas,
     workerReplicas     |-> serviceConfig.workerReplicas,
     smtpServiceType    |-> serviceConfig.smtpServiceType,
     smtpLoadBalancerIP |-> serviceConfig.smtpLoadBalancerIP,
     deployIngress      |-> ingressConfig.deployIngress,
     ingressClass       |-> ingressConfig.ingressClass]

\* postalDependsOn, had the component been made to wait for its own job.
postalDependsOnItsJob == {postalNamespace.urn, Ref("Job", <<"p","o","s","t","a","l","-","i","n","i","t">>)}

\* postalDependsOn, had the options of new Postal(...) been left out.
postalDependsOnNothing == {}

\* postalDependsOn, had the database component been left out of it.
postalDependsOnNamespaceOnly == {postalNamespace.urn}

\* dependsOn: mariadb ? [postalNamespace, mariadb] : [postalNamespace].
postalDependsOn ==
    IF mariadbDeclared
    THEN {postalNamespace.urn, Ref("custom:mariadb:MariaDB", <<"p","o","s","t","a","l","-","m","a","r","i","a","d","b">>)}
    ELSE {postalNamespace.urn}

postal == Postal(<<"p","o","s","t","a","l">>, postalArgs, [dependsOn |-> postalDependsOn])

\* Exports whose database endpoint is a connection string with the
\* application's credentials.
exportsWithCredentials ==
    ("namespaceName" :> postalNamespace.metadata.name) @@
    ("webUrl" :> <<"h","t","t","p","s",":","/","/">> \o postalDomain) @@
    ("smtpServiceName" :> <<"p","o","s","t","a","l","-","s","m","t","p">>) @@
    ("smtpServiceType" :> OrElse(serviceConfig.smtpServiceType, <<"C","l","u","s","t","e","r","I","P">>)) @@
    ("mariadbServiceName" :>
        IF mariadbDeclared THEN <<"p","o","s","t","a","l","-","m","a","r","i","a","d","b","-","s","e","r","v","i","c","e">> ELSE <<"e","x","t","e","r","n","a","l","-","m","a","r","i","a","d","b">>) @@
    ("mariadbEndpoint" :>
        dbConfig.username \o <<":">> \o mariadbPassword \o <<"@">> \o dbConfig.host \o <<":","3","3","0","6">>)

\* The stack outputs.
exports ==
    LET smtpService    == Resource(Ref("Service", <<"p","o","s","t","a","l","-","s","m","t","p","-","s","e","r","v","i","c","e">>))
        mariadbService == Resource(Ref("Service", <<"p","o","s","t","a","l","-","m","a","r","i","a","d","b","-","s","e","r","v","i","c","e">>))
    IN  ("namespaceName" :> postalNamespace.metadata.name) @@
        ("webUrl" :> <<"h","t","t","p","s",":","/","/">> \o postalDomain) @@
        ("smtpServiceName" :> smtpService.metadata.name) @@
        ("smtpServiceType" :> smtpService.spec.type) @@
        ("mariadbServiceName" :>
            IF mariadbDeclared THEN mariadbService.metadata.name ELSE <<"e","x","t","e","r","n","a","l","-","m","a","r","i","a","d","b">>) @@
        ("mariadbEndpoint" :>
            IF mariadbDeclared
            THEN mariadbService.metadata.name \o <<".","p","o","s","t","a","l",".","s","v","c",".","c","l","u","s","t","e","r",".","l","o","c",
                                                   "a","l",":","3","3","0","6">>
            ELSE dbConfig.host \o <<":","3","3","0","6">>)

\* The required settings that are not set.
Missing == {i \in 1..Len(Required) : get(Required[i]) = undefined}

\* Lines 34-73: the settings are read; the first required one that is not
\* set throws, which ends the program.
LoadConfig ==
    /\ pc = "start"
    /\ IF Missing # {}
       THEN pc' = "failed" /\ error' = Required[Least(Missing)]
       ELSE pc' = "configured" /\ error' = error
    /\ UNCHANGED <<config, prior, previous, resources, outputs, created>>

DeclareProvider ==
    /\ pc = "configured"
    /\ resources' = resources \o <<k8sProvider>>
    /\ pc' = "provider"
    /\ UNCHANGED <<config, prior, previous, error, outputs, created>>

DeclareNamespace ==
    /\ pc = "provider"
    /\ resources' = resources \o <<postalNamespace>>
    /\ pc' = "namespace"
    /\ UNCHANGED <<config, prior, previous, error, outputs, created>>

\* if (deployMariadb) { mariadb = new MariaDB(...) }.
DeclareMariaDB ==
    /\ pc = "namespace"
    /\ resources' = IF deployMariadb THEN resources \o mariadb ELSE resources
    /\ pc' = "mariadb"
    /\ UNCHANGED <<config, prior, previous, error, outputs, created>>

DeclarePostal ==
    /\ pc = "mariadb"
    /\ resources' = resources \o postal
    /\ pc' = "postal"
    /\ UNCHANGED <<config, prior, previous, error, outputs, created>>

Export ==
    /\ pc = "postal"
    /\ outputs' = exports
    /\ pc' = "done"
    /\ UNCHANGED <<config, prior, previous, error, resources, created>>

(***************************************************************************)
(* The engine: it creates a declared resource once everything the resource *)
(* depends on has been created.                                            *)
(***************************************************************************)

Urns == {resources[i].urn : i \in 1..Len(resources)}

Children(u) == {resources[i].urn : i \in {j \in 1..Len(resources) : resources[j].parent = u}}

\* What a resource waits for: its explicit dependsOn (a component standing
\* for its children too), the resources whose computed values it reads, its
\* provider and its parent; a component is registered once what it depends
\* on exists, and its children are registered after it.
DependenciesOf(r) ==
    LET explicit == r.dependsOn \cup UNION {Children(u) : u \in r.dependsOn}
    IN  (explicit \cup r.refs \cup {r.parent, r.provider}) \ {NoRef}

Create(u) ==
    /\ pc = "done"
    /\ u \in Urns \ created
    /\ DependenciesOf(Resource(u)) \subseteq created
    /\ created' = created \cup {u}
    /\ UNCHANGED <<config, prior, previous, pc, error, resources, outputs>>

(***************************************************************************)
(* Specifications.                                                         *)
(***************************************************************************)

Start ==
    /\ prior = config
    /\ previous = << >>
    /\ pc = "start"
    /\ error = ""
    /\ resources = << >>
    /\ outputs = << >>
    /\ created = {}

\* One evaluation of the program.
Init == config \in Configs /\ Start

Next ==
    \/ LoadConfig
    \/ DeclareProvider
    \/ DeclareNamespace
    \/ DeclareMariaDB
    \/ DeclarePostal
    \/ Export

Spec == Init /\ [][Next]_vars

\* One deployment run: the program, then the engine creating what it declared.
InitRun == config \in SwitchConfigs /\ Start

NextRun ==
    \/ Next
    \/ \E u \in Urns : Create(u)

SpecRun == InitRun /\ [][NextRun]_vars


(***************************************************************************)
(* setup-stack-config.sh: the script that asks the operator for the        *)
(* settings and writes them to the stack, after which the operator runs    *)
(* the program.  While the script runs, pc holds the setting it is about   *)
(* to ask for.                                                             *)
(***************************************************************************)

\* The settings the script asks for under "Required Configuration", in the
\* order of its set_config calls.
SetupRequired ==
    <<"kubeconfig", "postal:domain", "postal:mysql-host", "postal:mysql-database",
      "postal:mysql-username", "postal:mysql-password", "postal:signing-key">>

\* The settings it asks for under "Optional Configuration".
SetupOptional ==
    <<"postal:image", "postal:web-replicas", "postal:smtp-replicas",
      "postal:worker-replicas", "postal:ingress-class", "postal:smtp-service-type",
      "postal:smtp-loadbalancer-ip">>

SetupPrompts == SetupRequired \o SetupOptional

\* The settings a stack may hold: those the program reads and those the
\* script writes.
StackKeys == Keys \cup {SetupPrompts[i] : i \in 1..Len(SetupPrompts)}

\* What the operator types at a prompt: nothing (the empty line), or a
\* value; the three database settings the program never reads get a value.
Answers ==
    [k \in {SetupPrompts[i] : i \in 1..Len(SetupPrompts)} |->
        CASE k = "kubeconfig"                   -> {<< >>, <<"k">>}
          [] k = "postal:domain"                -> {<< >>, <<"m",".","x">>}
          [] k = "postal:mysql-host"            -> {<<"h",".","z">>}
          [] k = "postal:mysql-database"        -> {<<"d">>}
          [] k = "postal:mysql-username"        -> {<<"u">>}
          [] k = "postal:mysql-password"        -> {<< >>, <<"a">>}
          [] k = "postal:signing-key"           -> {<< >>, <<"s">>}
          [] k = "postal:image"                 -> {<< >>, <<"i">>}
          [] k = "postal:ingress-class"         -> {<< >>, <<"t","r","a","e","f","i","k">>}
          [] k = "postal:smtp-service-type"     -> {<< >>, <<"N","o","d","e","P","o","r","t">>}
          [] k = "postal:smtp-loadbalancer-ip"  -> {<< >>, <<"1",".","2",".","3",".","4">>}
          [] OTHER                              -> {<< >>, <<"2">>}]

\* A stack with no settings; the stacks the script starts on are that one,
\* one on which the operator has already set the two database passwords by
\* hand, and a fully configured one.
NewStack == [k \in StackKeys |-> undefined]

\* A stack on which an earlier run of the script has set every setting it
\* asks for.
FullStack ==
    [k \in StackKeys |->
        IF k \in DOMAIN Answers THEN CHOOSE v \in Answers[k] : v # << >> ELSE undefined]

PriorStacks ==
    {NewStack,
     [NewStack EXCEPT !["postal:mariadb-password"] = <<"a">>,
                      !["postal:mariadb-root-password"] = <<"r">>],
     FullStack}

\* The prompt after prompt i; after the last one the script ends and the
\* operator runs the program.
AfterPrompt(i) == IF i < Len(SetupPrompts) THEN SetupPrompts[i + 1] ELSE "start"

\* Lines 11-21: the script stops unless it runs in a project directory with
\* a stack selected.
SetupCheck ==
    /\ pc = "setup"
    /\ \E inProject, stackSelected \in BOOLEAN :
          pc' = IF inProject /\ stackSelected THEN SetupPrompts[1] ELSE "exit"
    /\ UNCHANGED <<config, prior, previous, error, resources, outputs, created>>

\* set_config, had it asked and written whatever the setting holds.
set_configAlways(i) ==
    /\ i \in 1..Len(SetupRequired)
    /\ pc = SetupPrompts[i]
    /\ \E value \in Answers[pc] : config' = [config EXCEPT ![pc] = value]
    /\ pc' = AfterPrompt(i)
    /\ UNCHANGED <<prior, previous, error, resources, outputs, created>>

\* set_config key description [secret]: a setting that already has a
\* non-empty value is left alone; otherwise the operator's answer is
\* written, the empty answer included.
set_config(i) ==
    /\ i \in 1..Len(SetupRequired)
    /\ pc = SetupPrompts[i]
    /\ IF config[pc] \notin {undefined, << >>}
       THEN config' = config
       ELSE \E value \in Answers[pc] : config' = [config EXCEPT ![pc] = value]
    /\ pc' = AfterPrompt(i)
    /\ UNCHANGED <<prior, previous, error, resources, outputs, created>>

\* The blocks of the optional settings: a setting with no non-empty value
\* is written only when the operator's answer is not empty.
SetOptional(i) ==
    /\ i \in (Len(SetupRequired) + 1)..Len(SetupPrompts)
    /\ pc = SetupPrompts[i]
    /\ IF config[pc] \notin {undefined, << >>}
       THEN config' = config
       ELSE \E value \in Answers[pc] :
               config' = IF value # << >> THEN [config EXCEPT ![pc] = value] ELSE config
    /\ pc' = AfterPrompt(i)
    /\ UNCHANGED <<prior, previous, error, resources, outputs, created>>

\* The script on a stack, then one evaluation of the program.
InitSetup ==
    /\ config \in PriorStacks
    /\ prior = config
    /\ previous = << >>
    /\ pc = "setup"
    /\ error = ""
    /\ resources = << >>
    /\ outputs = << >>
    /\ created = {}

NextSetup ==
    \/ SetupCheck
    \/ \E i \in 1..Len(SetupPrompts) : set_config(i)
    \/ \E i \in 1..Len(SetupPrompts) : SetOptional(i)
    \/ Next

SpecSetup == InitSetup /\ [][NextSetup]_vars

(***************************************************************************)
(* A second deployment run: the operator changes at most one setting of    *)
(* the stack and applies the program again.  The first run's settings,     *)
(* declared resources and outputs are kept in previous.                    *)
(***************************************************************************)

Reapply ==
    /\ pc = "done"
    /\ previous = << >>
    /\ previous' = <<[config |-> config, resources |-> resources, outputs |-> outputs]>>
    /\ config' \in OneSettingFrom(config)
    /\ prior' = config'
    /\ pc' = "start"
    /\ error' = ""
    /\ resources' = << >>
    /\ outputs' = << >>
    /\ UNCHANGED created

InitReapply == config \in SwitchConfigs /\ Start

NextReapply == Next \/ Reapply

SpecReapply == InitReapply /\ [][NextReapply]_vars

\* A deployment run whose engine goes on creating whatever resource has its
\* dependencies created.
SpecRunFair == SpecRun /\ WF_vars(\E u \in Urns : Create(u))
(***************************************************************************)
(* What the claims speak of.                                               *)
(***************************************************************************)

MariaDBComponent == Ref("custom:mariadb:MariaDB", <<"p","o","s","t","a","l","-","m","a","r","i","a","d","b">>)
PostalComponent  == Ref("custom:postal:Postal", <<"p","o","s","t","a","l">>)
PostalSecret     == Ref("Secret", <<"p","o","s","t","a","l","-","s","e","c","r","e","t">>)
InitJob          == Ref("Job", <<"p","o","s","t","a","l","-","i","n","i","t">>)
DbConfigMap      == Ref("ConfigMap", <<"p","o","s","t","a","l","-","m","a","r","i","a","d","b","-","i","n","i","t">>)
DbDeployment     == Ref("Deployment", <<"p","o","s","t","a","l","-","m","a","r","i","a","d","b","-","d","e","p","l","o","y","m","e",
                                        "n","t">>)
DbService        == Ref("Service", <<"p","o","s","t","a","l","-","m","a","r","i","a","d","b","-","s","e","r","v","i","c","e">>)

\* The two database modes, as the operator selects them.
ExternalMode   == get("postal:deploy-mariadb") = <<"f","a","l","s","e">>
IntegratedMode == get("postal:deploy-mariadb") \in {undefined, <<"t","r","u","e">>}

\* The application component has been declared.
PostalDeclared == pc \in {"postal", "done"}

\* The configuration document a reader of the Secret gets.
RenderedConfig == fromBase64(Resource(PostalSecret).data["postal.yml"])

\* The blocks and keys of the configuration document the claims read.
MainDb         == <<"m","a","i","n","_","d","b">>
MessageDb      == <<"m","e","s","s","a","g","e","_","d","b">>
PostalBlock    == <<"p","o","s","t","a","l">>
HostKey        == <<"h","o","s","t">>
UsernameKey    == <<"u","s","e","r","n","a","m","e">>
PasswordKey    == <<"p","a","s","s","w","o","r","d">>
DatabaseKey    == <<"d","a","t","a","b","a","s","e">>
WebHostnameKey == <<"w","e","b","_","h","o","s","t","n","a","m","e">>

\* The names the database component gives its objects.
DatabaseObjectNames ==
    {<<"p","o","s","t","a","l","-","m","a","r","i","a","d","b","-","s","e","c","r","e","t">>, <<"p","o","s","t","a","l","-","m","a","r","i","a","d","b","-","i","n","i","t">>, <<"p","o","s","t","a","l","-","m","a","r","i","a","d","b","-","p","v","c">>,
     <<"p","o","s","t","a","l","-","m","a","r","i","a","d","b","-","d","e","p","l","o","y","m","e",
       "n","t">>, <<"p","o","s","t","a","l","-","m","a","r","i","a","d","b","-","s","e","r","v","i","c","e">>}

\* The workloads of the application: the three role Deployments and the Job.
PostalWorkloads ==
    {i \in 1..Len(resources) :
        /\ resources[i].urn.type \in {"Deployment", "Job"}
        /\ resources[i].parent = PostalComponent}

(***************************************************************************)
(* C1: in external-database mode (deploy-mariadb = false), whatever the    *)
(* other settings, no database object is ever declared: no resource of the *)
(* database component, no ConfigMap, no PersistentVolumeClaim, and no      *)
(* Deployment, Service or Secret under a database object's name.           *)
(***************************************************************************)
C1_NoDatabaseObjectsInExternalMode ==
    ExternalMode =>
        \A i \in 1..Len(resources) :
            /\ resources[i].urn # MariaDBComponent
            /\ resources[i].parent # MariaDBComponent
            /\ resources[i].urn.type \notin {"ConfigMap", "PersistentVolumeClaim"}
            /\ resources[i].urn.type \in {"Deployment", "Service", "Secret"}
                  => resources[i].metadata.name \notin DatabaseObjectNames

\* External mode with an external host set, the whole program evaluated and
\* the application's objects declared.
C1_Witness ==
    /\ ExternalMode
    /\ get("postal:mariadb-host") = <<"h",".","z">>
    /\ pc = "done"
    /\ Declared(PostalSecret)

(***************************************************************************)
(* C2: in integrated-database mode, for every combination of the other     *)
(* settings (a configured mariadb-host included), the database host in the *)
(* application's rendered configuration document is the name of the        *)
(* Service the database component declares.                                *)
(***************************************************************************)
C2_HostIsDatabaseService ==
    (IntegratedMode /\ PostalDeclared) =>
        /\ Declared(DbService)
        /\ Lookup(RenderedConfig, MainDb, HostKey) = Resource(DbService).metadata.name

(***************************************************************************)
(* C3: under every configuration the web, SMTP and worker Deployments and  *)
(* the init Job each declare exactly one volume, named config, whose       *)
(* secretName is the name of the one Secret the application component      *)
(* declares, and each mounts it at /config.                                *)
(***************************************************************************)
C3_OneConfigSecretMountedEverywhere ==
    PostalDeclared =>
        /\ Cardinality(PostalWorkloads) = 4
        /\ {i \in OfKind("Secret") : resources[i].parent = PostalComponent}
              = {i \in 1..Len(resources) : resources[i].urn = PostalSecret}
        /\ Cardinality({i \in OfKind("Secret") : resources[i].parent = PostalComponent}) = 1
        /\ \A i \in PostalWorkloads :
              LET s == resources[i].spec
              IN  /\ Len(s.volumes) = 1
                  /\ s.volumes[1].name = <<"c","o","n","f","i","g">>
                  /\ s.volumes[1].source = "secret"
                  /\ s.volumes[1].from = Resource(PostalSecret).metadata.name
                  /\ Len(s.container.volumeMounts) = 1
                  /\ s.container.volumeMounts[1].name = s.volumes[1].name
                  /\ s.container.volumeMounts[1].mountPath = <<"/","c","o","n","f","i","g">>

\* All four workloads declared, with replica counts and image configured.
C3_Witness ==
    /\ pc = "done"
    /\ Cardinality(PostalWorkloads) = 4
    /\ get("postal:image") = <<"i">>
    /\ get("postal:web-replicas") = <<"2">>

(***************************************************************************)
(* C4: for every valid configuration the document that base64-decoding the *)
(* Secret's postal.yml entry yields is well formed, and its main_db host,  *)
(* username, password and database, its message_db host, username and      *)
(* password and its postal.web_hostname are exactly the database host,     *)
(* username, password, database name and domain supplied, whatever         *)
(* characters the supplied strings hold.  It is stated here for the        *)
(* configurations with no custom rails secret key, so that only the        *)
(* supplied strings the claim names can refute it.                         *)
(***************************************************************************)
C4_RenderedConfigHoldsSuppliedValues ==
    (PostalDeclared /\ railsSecretKey = undefined) =>
        /\ ValidDocument(RenderedConfig)
        /\ Lookup(RenderedConfig, MainDb, HostKey) = dbConfig.host
        /\ Lookup(RenderedConfig, MainDb, UsernameKey) = dbConfig.username
        /\ Lookup(RenderedConfig, MainDb, PasswordKey) = mariadbPassword
        /\ Lookup(RenderedConfig, MainDb, DatabaseKey) = dbConfig.database
        /\ Lookup(RenderedConfig, MessageDb, HostKey) = dbConfig.host
        /\ Lookup(RenderedConfig, MessageDb, UsernameKey) = dbConfig.username
        /\ Lookup(RenderedConfig, MessageDb, PasswordKey) = mariadbPassword
        /\ Lookup(RenderedConfig, PostalBlock, WebHostnameKey) = postalDomain

(***************************************************************************)
(* C5: in integrated-database mode, in every creation order that respects  *)
(* the declared dependencies, the init Job is created only after the       *)
(* database's init-script ConfigMap (which holds the GRANT for the         *)
(* application's database user), the database Deployment and the database  *)
(* Service have been created.                                              *)
(***************************************************************************)
C5_InitJobAfterDatabase ==
    (IntegratedMode /\ InitJob \in created) =>
        /\ {DbConfigMap, DbDeployment, DbService} \subseteq created
        /\ Resource(DbConfigMap).data["init-postal.sql"] =
               <<"\n","-","-"," ","G","r","a","n","t"," ","p","e","r","m","i","s","s","i","o","n","s"," ","f",
                 "o","r"," ","P","o","s","t","a","l"," ","m","a","i","l"," ","s","e","r","v",
                 "e","r"," ","d","a","t","a","b","a","s","e","s","\n","G","R","A","N","T"," ",
                 "A","L","L"," ","P","R","I","V","I","L","E","G","E","S"," ","O","N"," ",
                 "GRAVE","p","o","s","t","a","l","-","%","GRAVE",".","*"," ","T","O"," ","'">>
               \o Lookup(RenderedConfig, MainDb, UsernameKey)
               \o <<"'","@","'","%","'",";","\n","F","L","U","S","H"," ","P","R","I","V","I","L","E","G","E","S",
                    ";","\n">>

\* The init Job created in integrated mode while other application objects
\* are still to be created.
C5_Witness ==
    /\ IntegratedMode
    /\ InitJob \in created
    /\ Ref("Deployment", <<"p","o","s","t","a","l","-","w","e","b">>) \notin created

(***************************************************************************)
(* C6: if a required setting (kubeconfig, domain, database application     *)
(* password, database root password, signing key) is absent, the program   *)
(* stops with a fatal error at load time and declares nothing: no          *)
(* provider, no namespace, no database object, no application object.      *)
(***************************************************************************)
C6_RequiredSettings ==
    {"kubeconfig", "postal:domain", "postal:mariadb-password",
     "postal:mariadb-root-password", "postal:signing-key"}

C6_MissingRequiredIsFatal ==
    (\E k \in C6_RequiredSettings : get(k) = undefined) =>
        /\ resources = << >>
        /\ outputs = << >>
        /\ created = {}
        /\ pc \in {"start", "failed"}
        /\ pc = "failed" => (error \in C6_RequiredSettings /\ get(error) = undefined)

\* The program stopped on the signing key, the fourth setting it requires.
C6_Witness ==
    /\ pc = "failed"
    /\ error = "postal:signing-key"
    /\ resources = << >>

(***************************************************************************)
(* C7: if ingress is disabled (deploy-ingress false or not set) no Ingress *)
(* is declared and the webUrl output is still https://<domain>; if it is   *)
(* enabled exactly one Ingress is declared, for host <domain>.             *)
(***************************************************************************)
C7_IngressFollowsSwitch ==
    /\ get("postal:deploy-ingress") \in {undefined, <<"f","a","l","s","e">>} =>
          /\ OfKind("Ingress") = {}
          /\ pc = "done" => outputs["webUrl"] = <<"h","t","t","p","s",":","/","/">> \o get("postal:domain")
    /\ (get("postal:deploy-ingress") = <<"t","r","u","e">> /\ PostalDeclared) =>
          /\ Cardinality(OfKind("Ingress")) = 1
          /\ \A i \in OfKind("Ingress") :
                /\ resources[i].spec.rule.host = get("postal:domain")
                /\ resources[i].spec.tls.hosts = <<get("postal:domain")>>
          /\ pc = "done" => outputs["webUrl"] = <<"h","t","t","p","s",":","/","/">> \o get("postal:domain")

\* Ingress enabled for the second domain, and the Ingress declared.
C7_Witness ==
    /\ get("postal:deploy-ingress") = <<"t","r","u","e">>
    /\ get("postal:domain") = <<"n",".","y">>
    /\ pc = "done"
    /\ OfKind("Ingress") # {}

(***************************************************************************)
(* C8: in integrated-database mode, for every domain d and SMTP service    *)
(* type t with no static address configured, the outputs are               *)
(* webUrl = https://d, mariadbServiceName = postal-mariadb-service and     *)
(* smtpServiceType = t, and the web_hostname entry of the postal block of  *)
(* the rendered configuration is d.                                        *)
(***************************************************************************)
C8_IntegratedOutputs ==
    (/\ IntegratedMode
     /\ get("postal:smtp-service-type") # undefined
     /\ get("postal:smtp-loadbalancer-ip") = undefined
     /\ pc = "done") =>
        /\ outputs["webUrl"] = <<"h","t","t","p","s",":","/","/">> \o get("postal:domain")
        /\ outputs["mariadbServiceName"] = <<"p","o","s","t","a","l","-","m","a","r","i","a","d","b","-","s","e","r","v","i","c","e">>
        /\ outputs["smtpServiceType"] = get("postal:smtp-service-type")
        /\ Lookup(RenderedConfig, PostalBlock, WebHostnameKey) = get("postal:domain")

\* The scenario of the specification, on the second domain.
C8_Witness ==
    /\ IntegratedMode
    /\ get("postal:domain") = <<"n",".","y">>
    /\ get("postal:smtp-service-type") = <<"L","o","a","d","B","a","l","a","n","c","e","r">>
    /\ get("postal:smtp-loadbalancer-ip") = undefined
    /\ pc = "done"
    /\ outputs["smtpServiceType"] = <<"L","o","a","d","B","a","l","a","n","c","e","r">>

(***************************************************************************)
(* C9: in external-database mode with external host h configured, the      *)
(* mariadbEndpoint output is h:3306 and no PersistentVolumeClaim is        *)
(* declared.                                                               *)
(***************************************************************************)
C9_ExternalEndpoint ==
    (ExternalMode /\ get("postal:mariadb-host") # undefined) =>
        /\ OfKind("PersistentVolumeClaim") = {}
        /\ pc = "done" => outputs["mariadbEndpoint"] = get("postal:mariadb-host") \o <<":","3","3","0","6">>

C9_Witness ==
    /\ ExternalMode
    /\ get("postal:mariadb-host") = <<"h",".","z">>
    /\ pc = "done"
    /\ outputs["mariadbEndpoint"] = <<"h",".","z",":","3","3","0","6">>

(***************************************************************************)
(* C10: in external-database mode the database host in the application's   *)
(* rendered configuration is a value the operator supplied (the            *)
(* mariadb-host setting), never one the operator did not supply such as    *)
(* the name of the absent integrated database Service; the user name and   *)
(* database name the operator set are the ones rendered.                   *)
(***************************************************************************)
C10_ExternalHostIsOperatorSupplied ==
    (ExternalMode /\ PostalDeclared) =>
        /\ Lookup(RenderedConfig, MainDb, HostKey) = get("postal:mariadb-host")
        /\ Lookup(RenderedConfig, MainDb, HostKey) # <<"p","o","s","t","a","l","-","m","a","r","i","a","d","b","-","s","e","r","v","i","c","e">>
        /\ get("postal:mariadb-username") # undefined =>
              Lookup(RenderedConfig, MainDb, UsernameKey) = get("postal:mariadb-username")
        /\ get("postal:mariadb-database") # undefined =>
              Lookup(RenderedConfig, MainDb, DatabaseKey) = get("postal:mariadb-database")


(***************************************************************************)
(* The application's role objects.                                         *)
(***************************************************************************)

WebDeployment    == Ref("Deployment", <<"p","o","s","t","a","l","-","w","e","b">>)
SmtpDeployment   == Ref("Deployment", <<"p","o","s","t","a","l","-","s","m","t","p">>)
WorkerDeployment == Ref("Deployment", <<"p","o","s","t","a","l","-","w","o","r","k","e","r">>)
WebService       == Ref("Service", <<"p","o","s","t","a","l","-","w","e","b","-","s","e","r","v","i","c","e">>)
SmtpService      == Ref("Service", <<"p","o","s","t","a","l","-","s","m","t","p","-","s","e","r","v","i","c","e">>)
WebIngress       == Ref("Ingress", <<"p","o","s","t","a","l","-","w","e","b","-","i","n","g","r","e","s","s">>)

(***************************************************************************)
(* C11: each role's Deployment declares the replica count configured for   *)
(* that role, for every configured non-negative integer (zero included),   *)
(* declares 1 when none is configured, and so does not depend on the other *)
(* two roles' settings.                                                    *)
(***************************************************************************)
C11_ReplicasFollowSettings ==
    LET configured(key) == IF get(key) = undefined THEN 1 ELSE parseInt(get(key))
    IN  PostalDeclared =>
           /\ Resource(WebDeployment).spec.replicas = configured("postal:web-replicas")
           /\ Resource(SmtpDeployment).spec.replicas = configured("postal:smtp-replicas")
           /\ Resource(WorkerDeployment).spec.replicas = configured("postal:worker-replicas")

(***************************************************************************)
(* C12: when postal:smtp-service-type is not configured, the SMTP Service  *)
(* is declared with type LoadBalancer and the smtpServiceType output is    *)
(* LoadBalancer.                                                           *)
(***************************************************************************)
C12_DefaultSmtpTypeIsLoadBalancer ==
    (get("postal:smtp-service-type") = undefined /\ PostalDeclared) =>
        /\ Resource(SmtpService).spec.type = <<"L","o","a","d","B","a","l","a","n","c","e","r">>
        /\ pc = "done" => outputs["smtpServiceType"] = <<"L","o","a","d","B","a","l","a","n","c","e","r">>

\* The rails block of the configuration document and its key.
RailsBlock   == <<"r","a","i","l","s">>
SecretKeyKey == <<"s","e","c","r","e","t","_","k","e","y">>

(***************************************************************************)
(* C13: when a custom rails secret key is configured, the secret_key entry *)
(* of the rails block of the rendered configuration document is exactly    *)
(* the configured value.                                                   *)
(***************************************************************************)
C13_CustomRailsKeyIsRendered ==
    (get("postal:rails-secret-key") # undefined /\ PostalDeclared) =>
        Lookup(RenderedConfig, RailsBlock, SecretKeyKey) = get("postal:rails-secret-key")

C15_SmtpPortAndStaticAddress ==
    PostalDeclared =>
        LET spec       == Resource(SmtpService).spec
            configured == get("postal:smtp-loadbalancer-ip")
        IN  /\ \E i \in 1..Len(spec.ports) :
                  spec.ports[i].port = 25 /\ spec.ports[i].protocol = <<"T","C","P">>
            /\ configured \in {undefined, << >>} => spec.loadBalancerIP = undefined
            /\ configured \notin {undefined, << >>} => spec.loadBalancerIP = configured

\* A static address configured and declared on the Service.
C15_Witness ==
    /\ PostalDeclared
    /\ get("postal:smtp-loadbalancer-ip") = <<"1",".","2",".","3",".","4">>
    /\ Resource(SmtpService).spec.loadBalancerIP = <<"1",".","2",".","3",".","4">>

(***************************************************************************)
(* C16: under every configuration the declared type of the SMTP Service is *)
(* one of ClusterIP, NodePort and LoadBalancer.                            *)
(***************************************************************************)
C16_SmtpTypeIsOneOfThree ==
    PostalDeclared =>
        Resource(SmtpService).spec.type \in {<<"C","l","u","s","t","e","r","I","P">>, <<"N","o","d","e","P","o","r","t">>, <<"L","o","a","d","B","a","l","a","n","c","e","r">>}

\* The password the initialization job gives the first administrator.
AdminPassword == <<"P","o","s","t","a","l","A","d","m","i","n","1","2","3","!">>

\* The credential values of a deployment: the configured ones and the
\* administrator's password.
Credentials ==
    ({get("postal:mariadb-root-password"), get("postal:mariadb-password"),
      get("postal:signing-key"), get("postal:rails-secret-key")} \ {undefined})
        \cup {AdminPassword}

\* Whether text t holds the text c somewhere.
Contains(t, c) ==
    \E i \in 1..(Len(t) - Len(c) + 1) : SubSeq(t, i, i + Len(c) - 1) = c

\* The texts an object that is not a Secret carries: image, command and
\* literal environment values of a workload's container, the data of a
\* ConfigMap, the type and address of a Service, the hosts of an Ingress.
TextsOf(r) ==
    CASE r.urn.type \in {"Deployment", "Job"} ->
            LET c == r.spec.container
            IN  {c.image}
                \cup {c.env[i].value : i \in {j \in 1..Len(c.env) : c.env[j].value # undefined}}
                \cup (IF "command" \in DOMAIN c
                      THEN {c.command[i] : i \in 1..Len(c.command)} ELSE {})
      [] r.urn.type = "ConfigMap" -> {r.data[k] : k \in DOMAIN r.data}
      [] r.urn.type = "Service" -> {r.spec.type, r.spec.loadBalancerIP} \ {undefined}
      [] r.urn.type = "Ingress" ->
            {r.spec.rule.host} \cup {r.spec.tls.hosts[i] : i \in 1..Len(r.spec.tls.hosts)}
      [] OTHER -> {}

(***************************************************************************)
(* C17: every credential value the deployment uses (database root          *)
(* password, database application password, signing key, rails secret key, *)
(* administrator's initial password) appears in the data of Secret objects *)
(* only: in no ConfigMap, Deployment, Job, Service or Ingress, and in no   *)
(* stack output.                                                           *)
(***************************************************************************)
C17_CredentialsOnlyInSecrets ==
    \A c \in Credentials :
        /\ \A i \in 1..Len(resources) :
              resources[i].urn.type # "Secret" =>
                  \A t \in TextsOf(resources[i]) : ~Contains(t, c)
        /\ \A o \in DOMAIN outputs : ~Contains(outputs[o], c)

\* The stack had no setting when the script was started.
StackWasNew == prior = NewStack

(***************************************************************************)
(* C18: when setup-stack-config.sh has run to completion on a stack that   *)
(* had no settings, every setting the program requires (kubeconfig,        *)
(* postal:domain, postal:mariadb-password, postal:mariadb-root-password,   *)
(* postal:signing-key) is set, and the evaluation of the program that      *)
(* follows does not fail on a missing required setting.  The script has    *)
(* run to completion when the program is about to start.                   *)
(***************************************************************************)
C18_SetupSetsRequiredSettings ==
    StackWasNew =>
        /\ pc = "start" => \A i \in 1..Len(Required) : config[Required[i]] # undefined
        /\ pc # "failed"

(***************************************************************************)
(* C19: the container of every long-running workload the deployment        *)
(* declares (the web, SMTP, worker and database Deployments) has a         *)
(* liveness probe, a readiness probe and resource limits.                  *)
(***************************************************************************)
C19_WorkloadsHaveProbesAndLimits ==
    \A i \in OfKind("Deployment") :
        LET container == resources[i].spec.container
        IN  /\ container.livenessProbe
            /\ container.readinessProbe
            /\ container.limits

\* The namespace, and the Kubernetes objects among the declared resources
\* (the provider and the two components are not objects of the cluster).
NamespaceObject == Ref("Namespace", <<"p","o","s","t","a","l","-","n","s">>)

KubernetesObjects ==
    {u \in Urns : u.type \notin {"pulumi:providers:kubernetes", "custom:mariadb:MariaDB",
                                 "custom:postal:Postal"}}

(***************************************************************************)
(* C20: in every creation order that respects the declared dependencies,   *)
(* the namespace is created before every other Kubernetes object; in       *)
(* integrated mode the database objects are created before the             *)
(* configuration Secret; the configuration Secret is created before each   *)
(* of the three role Deployments; each Service is created after the        *)
(* Deployment of its role; and the Ingress, when declared, is created      *)
(* after the web Service.  An object is created after another when it is   *)
(* never among the created ones without the other.                         *)
(***************************************************************************)
C20_CreationOrder ==
    LET After(later, earlier) == later \in created => earlier \in created
    IN  /\ \A u \in KubernetesObjects \ {NamespaceObject} : After(u, NamespaceObject)
        /\ \A u \in Children(MariaDBComponent) : After(PostalSecret, u)
        /\ \A d \in {WebDeployment, SmtpDeployment, WorkerDeployment} : After(d, PostalSecret)
        /\ After(WebService, WebDeployment)
        /\ After(SmtpService, SmtpDeployment)
        /\ After(DbService, DbDeployment)
        /\ After(WebIngress, WebService)

\* Integrated mode with the Ingress declared, everything created.
C20_Witness ==
    /\ IntegratedMode
    /\ Declared(WebIngress)
    /\ Children(MariaDBComponent) # {}
    /\ created = Urns
    /\ WebIngress \in created

(***************************************************************************)
(* C21: in every creation order that respects the declared dependencies,   *)
(* the init Job is created after the web, SMTP and worker Deployments,     *)
(* after the web and SMTP Services, and after the Ingress when one is      *)
(* declared.                                                               *)
(***************************************************************************)
C21_InitJobCreatedLast ==
    InitJob \in created =>
        /\ {WebDeployment, SmtpDeployment, WorkerDeployment} \subseteq created
        /\ {WebService, SmtpService} \subseteq created
        /\ Declared(WebIngress) => WebIngress \in created

\* A value the template interpolates is missing (a required one that is not
\* set: the others have defaults) or unresolved (the rails secret key, which
\* reaches the template as the Output of getSecret, outside the values that
\* all([...]).apply resolves).
InterpolatedValueMissing    == get("postal:domain") = undefined
                                  \/ get("postal:mariadb-password") = undefined
InterpolatedValueUnresolved == railsSecretKey # undefined

(***************************************************************************)
(* C22: if a value interpolated into the configuration document is missing *)
(* or unresolved when the document is rendered, the run fails during the   *)
(* declaration phase, before any resource (the namespace included) has     *)
(* been handed to the engine: nothing is declared, nothing is exported.    *)
(***************************************************************************)
C22_RenderingErrorFailsBeforeAnything ==
    (InterpolatedValueMissing \/ InterpolatedValueUnresolved) =>
        /\ pc \in {"start", "failed"}
        /\ resources = << >>
        /\ outputs = << >>

(***************************************************************************)
(* A run and the run before it.                                            *)
(***************************************************************************)

\* The second run has declared everything.
SecondRunDone == previous # << >> /\ pc = "done"

\* The initialization job among the resources rs of a run.
JobOf(rs) == rs[CHOOSE i \in 1..Len(rs) : rs[i].urn.type = "Job"]

CurrentJob  == JobOf(resources)
PreviousJob == JobOf(previous[1].resources)

\* C23 as stated: re-applying the deployment declares a new initialization
\* job, an object distinct from the job of the previous run (another
\* logical name or another object name), so that every run executes the
\* initialization commands afresh.
C23_ReapplyDeclaresNewJob ==
    SecondRunDone =>
        \/ CurrentJob.urn # PreviousJob.urn
        \/ CurrentJob.metadata # PreviousJob.metadata

\* C23, amended: re-applying the deployment declares the initialization job
\* under the same logical name, the same object name postal-init and the same
\* namespace as the previous run, and with unchanged settings with the same
\* specification: it is the job of the previous run, not a new one, and a
\* run with unchanged settings executes nothing afresh.
C23_ReapplyDeclaresSameJob ==
    SecondRunDone =>
        /\ CurrentJob.urn = PreviousJob.urn
        /\ CurrentJob.metadata = PreviousJob.metadata
        /\ CurrentJob.metadata.name = InitJobName(<<"p", "o", "s", "t", "a", "l">>)
        /\ config = previous[1].config => CurrentJob = PreviousJob

\* A second run, after the domain was changed, has declared its job.
C23_Witness ==
    /\ SecondRunDone
    /\ config["postal:domain"] # previous[1].config["postal:domain"]
    /\ CurrentJob.spec # PreviousJob.spec

DbSecret == Ref("Secret", <<"p","o","s","t","a","l","-","m","a","r","i","a","d","b","-","s","e","c","r","e","t">>)

\* The entry of the container's environment of resource r named n.
EnvOf(r, n) ==
    LET env == r.spec.container.env
    IN  env[CHOOSE i \in 1..Len(env) : env[i].name = n]

\* The init script, up to the user name and after it.
GrantPrefix ==
    <<"\n","-","-"," ","G","r","a","n","t"," ","p","e","r","m","i","s","s","i","o","n","s"," ","f",
      "o","r"," ","P","o","s","t","a","l"," ","m","a","i","l"," ","s","e","r","v","e","r"," ",
      "d","a","t","a","b","a","s","e","s","\n","G","R","A","N","T"," ","A","L","L"," ","P","R",
      "I","V","I","L","E","G","E","S"," ","O","N"," ","GRAVE","p","o","s","t","a","l","-","%",
      "GRAVE",".","*"," ","T","O"," ","'">>
GrantSuffix == <<"'","@","'","%","'",";","\n","F","L","U","S","H"," ","P","R","I","V","I","L","E","G","E","S",
                 ";","\n">>

\* What the database workload is initialised with.
DbUser         == EnvOf(Resource(DbDeployment), <<"M","A","R","I","A","D","B","_","U","S","E","R">>).value
DbDatabase     == EnvOf(Resource(DbDeployment), <<"M","A","R","I","A","D","B","_","D","A","T","A","B","A","S","E">>).value
DbPassword     == fromBase64(Resource(DbSecret).data["mariadb-password"])
DbRootPassword == fromBase64(Resource(DbSecret).data["mariadb-root-password"])

\* The user name, the database name and the password match.
CredentialsMatch ==
    /\ Lookup(RenderedConfig, MainDb, UsernameKey) = DbUser
    /\ Lookup(RenderedConfig, MainDb, DatabaseKey) = DbDatabase
    /\ Lookup(RenderedConfig, MainDb, PasswordKey) = DbPassword

\* The entries of the database Secret, its environment and the GRANT.
DatabaseSideMatches ==
    /\ EnvOf(Resource(DbDeployment), <<"M","A","R","I","A","D","B","_","P","A","S","S","W","O","R","D">>).secretName
          = Resource(DbSecret).metadata.name
    /\ EnvOf(Resource(DbDeployment), <<"M","A","R","I","A","D","B","_","P","A","S","S","W","O","R","D">>).secretKey = "mariadb-password"
    /\ EnvOf(Resource(DbDeployment), <<"M","A","R","I","A","D","B","_","R","O","O","T","_","P","A","S","S","W","O","R","D">>).secretKey
          = "mariadb-root-password"
    /\ DbRootPassword = mariadbRootPassword
    /\ DbPassword = mariadbPassword
    /\ Resource(DbConfigMap).data["init-postal.sql"] = GrantPrefix \o DbUser \o GrantSuffix

\* C25: in integrated-database mode the user name, the database name and
\* the password of the application's rendered configuration are the
\* MARIADB_USER, the MARIADB_DATABASE and the decoded mariadb-password entry
\* the database workload is initialised with; the root password entry
\* decodes to the configured root password; the GRANT of the init script
\* names that same user.  It is stated for the configurations with no custom
\* rails secret key.
C25_ApplicationAndDatabaseAgree ==
    (IntegratedMode /\ pc = "done" /\ railsSecretKey = undefined) =>
        /\ CredentialsMatch
        /\ DatabaseSideMatches

(***************************************************************************)
(* Services, the pods they select and the ingress backend.                 *)
(***************************************************************************)

\* The declared Services and Deployments.
Services    == {resources[i] : i \in OfKind("Service")}
Deployments == {resources[i] : i \in OfKind("Deployment")}

\* Every label of the selector is a label of the pod template of d.
Selects(selector, d) ==
    \A k \in DOMAIN selector :
        k \in DOMAIN d.spec.podLabels /\ d.spec.podLabels[k] = selector[k]

\* The Deployment of the role of a Service.
RoleOf(s) ==
    CASE s.urn = WebService  -> WebDeployment
      [] s.urn = SmtpService -> SmtpDeployment
      [] s.urn = DbService   -> DbDeployment

\* C26: the selector of every declared Service is carried by the pod
\* template of exactly one declared Deployment, the one of its role; each
\* targetPort it names is a named container port of that Deployment; the
\* backend of the Ingress, when declared, names the web Service with a port
\* number the web Service exposes.
C26_ServicesReachTheirPods ==
    pc = "done" =>
        /\ \A s \in Services :
              /\ {d \in Deployments : Selects(s.spec.selector, d)} = {Resource(RoleOf(s))}
              /\ \A i \in 1..Len(s.spec.ports) :
                    \E j \in 1..Len(Resource(RoleOf(s)).spec.container.ports) :
                        Resource(RoleOf(s)).spec.container.ports[j].name
                            = s.spec.ports[i].targetPort
        /\ Declared(WebIngress) =>
              /\ Resource(WebIngress).spec.rule.serviceName
                    = Resource(WebService).metadata.name
              /\ \E i \in 1..Len(Resource(WebService).spec.ports) :
                    Resource(WebService).spec.ports[i].port
                        = Resource(WebIngress).spec.rule.servicePort

\* Three Services and the Ingress are declared.
C26_Witness ==
    /\ pc = "done"
    /\ Cardinality(Services) = 3
    /\ Cardinality(Deployments) = 4
    /\ Declared(WebIngress)

(***************************************************************************)
(* Names.                                                                  *)
(***************************************************************************)

\* The positions of the declared Kubernetes objects, and of those that live
\* in a namespace.
ObjectsAt    == {i \in 1..Len(resources) : resources[i].urn \in KubernetesObjects}
NamespacedAt == {i \in ObjectsAt : resources[i].urn.type # "Namespace"}

\* C27: no two declared objects of the same kind have the same name in the
\* same namespace, no two declared resources have the same type and logical
\* name, and every namespaced object is declared in the namespace postal.
C27_NamesAreUnique ==
    /\ \A i, j \in ObjectsAt :
          (i # j /\ resources[i].urn.type = resources[j].urn.type) =>
              resources[i].metadata # resources[j].metadata
    /\ \A i, j \in 1..Len(resources) : i # j => resources[i].urn # resources[j].urn
    /\ \A i \in NamespacedAt :
          resources[i].metadata.namespace = <<"p", "o", "s", "t", "a", "l">>

\* Everything is declared: both components, the ingress included.
C27_Witness ==
    /\ pc = "done"
    /\ Cardinality(NamespacedAt) = 13
    /\ Cardinality({resources[i].metadata.name : i \in NamespacedAt}) < 13

(***************************************************************************)
(* Secret settings and the outputs.                                        *)
(***************************************************************************)

\* The settings the program reads as secrets.
SecretKeys ==
    {"postal:mariadb-password", "postal:mariadb-root-password", "postal:signing-key",
     "postal:rails-secret-key"}

\* The second run's settings differ from the first run's in secret settings
\* at most.
OnlySecretsChanged == \A k \in Keys \ SecretKeys : config[k] = previous[1].config[k]

\* C28: of two runs whose settings agree on everything but the secret
\* settings (application password, root password, signing key, rails secret
\* key), the exported outputs are the same: namespaceName, webUrl,
\* smtpServiceName, smtpServiceType, mariadbServiceName and mariadbEndpoint.
C28_OutputsIndependentOfSecrets ==
    (SecondRunDone /\ OnlySecretsChanged) =>
        /\ DOMAIN outputs = {"namespaceName", "webUrl", "smtpServiceName", "smtpServiceType",
                             "mariadbServiceName", "mariadbEndpoint"}
        /\ outputs = previous[1].outputs

\* A second run after the application password alone was changed.
C28_Witness ==
    /\ SecondRunDone
    /\ OnlySecretsChanged
    /\ config["postal:mariadb-password"] # previous[1].config["postal:mariadb-password"]

(***************************************************************************)
(* The dependency relation.                                                *)
(***************************************************************************)

\* The resources that can be put in an order in which each comes after
\* everything it waits for: those that wait for nothing, then, round after
\* round, those that wait for resources already ordered only.
RECURSIVE Ordered(_)
Ordered(n) ==
    IF n = 0
    THEN {}
    ELSE LET before == Ordered(n - 1)
         IN  {u \in Urns : DependenciesOf(Resource(u)) \subseteq before}

\* The dependency relation has no cycle: every declared resource can be
\* ordered.
Acyclic == Ordered(Len(resources)) = Urns

\* Some resource not yet created has everything it waits for created.
SomeResourceReady ==
    \E u \in Urns \ created : DependenciesOf(Resource(u)) \subseteq created

\* C29: in both database modes, with the ingress declared or not, the
\* dependency relation of the declared resources has no cycle; once the
\* program has declared its resources, an engine that keeps creating any
\* resource whose dependencies are created is never left with a resource it
\* cannot create, and in the end it has created every declared resource.
C29_EveryResourceIsCreated ==
    /\ [](pc = "done" => Acyclic)
    /\ [](pc = "done" => (created = Urns \/ SomeResourceReady))
    /\ pc = "done" ~> created = Urns

\* Everything is created, the database and the ingress included.
C29_Witness ==
    /\ pc = "done"
    /\ created = Urns
    /\ mariadbDeclared
    /\ Declared(WebIngress)
    /\ Acyclic

(***************************************************************************)
(* The setup script on settings already set.                               *)
(***************************************************************************)

\* The setting has a non-empty value in stack c.
IsSet(c, k) == c[k] \notin {undefined, << >>}

\* The script is running.
InScript == pc = "setup" \/ pc \in DOMAIN Answers

\* C30: no step of setup-stack-config.sh changes a setting that has a
\* non-empty value: set_config and every optional block write a setting only
\* when it is not set, so that a run of the script on a stack with every
\* setting set writes nothing.
C30_SetSettingsAreKept ==
    [][InScript =>
          /\ \A k \in StackKeys : IsSet(config, k) => config'[k] = config[k]
          /\ (\A k \in DOMAIN Answers : IsSet(config, k)) => config' = config]_vars

\* The script has run to its end on the fully configured stack and the stack
\* still holds what it held.
C30_Witness ==
    /\ prior = FullStack
    /\ pc = "start"
    /\ config = FullStack
====
